---- MODULE Spec2Model ----
(***************************************************************************)
(* A model of src/src/App.tsx (the "Find My Color" React component):       *)
(* the dominant-colour extractor (extractColors), the point sampler        *)
(* (getColorAtPoint), the asynchronous file loading pipeline (handleFile,  *)
(* FileReader.onload, Image.onload) and the UI state they share.           *)
(*                                                                         *)
(* Numbers.  JavaScript numbers are IEEE doubles.  Every integer the code  *)
(* computes here is below 2^25, so integer arithmetic is exact.  The two   *)
(* non-integer computations, (count / totalPixels) * 100 and x * scaleX,   *)
(* are modelled as exact rationals <<numerator, denominator>> in lowest    *)
(* terms: double rounding is monotone and, for the pixel counts of any     *)
(* canvas, keeps distinct counts distinct, so every comparison the code    *)
(* makes on percentages has the same outcome on the rationals.             *)
(***************************************************************************)
EXTENDS Integers, Sequences, FiniteSets, Bags, TLC

VARIABLES
    colors,          \* useState<Color[]>            (line 25)
    customColors,    \* useState<CustomColor[]>      (line 26)
    imageUrl,        \* useState<string>             (line 27)
    isDragging,      \* useState(false)              (line 28)
    isPicking,       \* useState(false)              (line 30)
    pickedColor,     \* useState<string | null>      (line 31)
    canvas,          \* the bitmap behind canvasRef  (lines 33, 361)
    pending,         \* bag of FileReader / Image loads in flight (lines 77-86)
    nSelected,       \* how many loads handleFile has started
    lastImageFile,   \* history: the last file handleFile accepted
    error,           \* history: the exception the last handler let escape
    sample           \* history: the canvas coordinate getColorAtPoint read

vars == <<colors, customColors, imageUrl, isDragging, isPicking, pickedColor,
          canvas, pending, nSelected, lastImageFile, error,
          sample>>

-----------------------------------------------------------------------------
(* Bounds of the model.                                                    *)

MaxWidth == 4          \* widest image of the extraction inputs
MaxHeight == 2         \* tallest image of the extraction inputs
MaxPixels == 8         \* most pixels of an extraction input
MaxDisplay == 3        \* largest rendered width / height of the <img>
MaxHistory == 2        \* picks made in one run
MaxSelections == 2     \* loads started in one run
MaxClock == 1          \* latest value of Date.now() in one run

-----------------------------------------------------------------------------
(* Rationals in lowest terms, for the two floating-point computations.     *)

RECURSIVE GCD(_, _)
GCD(a, b) == IF b = 0 THEN a ELSE GCD(b, a % b)

Abs(n) == IF n < 0 THEN -n ELSE n

Rat(n, d) ==
    LET g == GCD(Abs(n), Abs(d))
        s == IF d < 0 THEN -1 ELSE 1
    IN  <<(s * n) \div g, (s * d) \div g>>

RatDiv(a, b) == Rat(a, b)

RatTimes(q, k) == Rat(q[1] * k, q[2])

\* The sign of p - q.
RatMinusSign(p, q) ==
    LET d == p[1] * q[2] - q[1] * p[2]
    IN  IF d > 0 THEN 1 ELSE IF d < 0 THEN -1 ELSE 0

\* ToInt32-style conversion of a WebIDL "long" argument: truncation towards 0.
RatTrunc(q) ==
    IF q[1] >= 0 THEN q[1] \div q[2] ELSE -((-q[1]) \div q[2])

-----------------------------------------------------------------------------
(* The hex key: `#${((1 << 24) + (r << 16) + (g << 8) + b)                 *)
(*                    .toString(16).slice(1)}`                             *)
(* A string is a sequence of one-character strings.                        *)

HexDigits ==
    <<"0", "1", "2", "3", "4", "5", "6", "7",
      "8", "9", "a", "b", "c", "d", "e", "f">>

ShiftLeft(x, k) == x * (2 ^ k)

\* Number.prototype.toString(16) of a non-negative integer: no leading zeros.
RECURSIVE ToString16(_)
ToString16(n) ==
    IF n < 16
    THEN <<HexDigits[n + 1]>>
    ELSE Append(ToString16(n \div 16), HexDigits[(n % 16) + 1])

\* String.prototype.slice(1).
Slice1(s) == IF Len(s) = 0 THEN s ELSE Tail(s)

ToHex_Unpadded(r, g, b) ==
    <<"#">> \o ToString16(ShiftLeft(r, 16) + ShiftLeft(g, 8) + b)

ToHex(r, g, b) ==
    <<"#">> \o Slice1(ToString16(ShiftLeft(1, 24) + ShiftLeft(r, 16)
                                  + ShiftLeft(g, 8) + b))

-----------------------------------------------------------------------------
(* The canvas.  A bitmap is [width, height, pixels]: pixels is row-major,  *)
(* one <<r, g, b, a>> per pixel.                                           *)

TransparentBlack == <<0, 0, 0, 0>>

\* <canvas> as created: the default 300 x 150 bitmap, every pixel
\* transparent black (pixels the sequence does not hold read as such).
DefaultCanvas == [width |-> 300, height |-> 150, pixels |-> <<>>]

\* canvas.width = w; canvas.height = h: the bitmap is cleared.
\* ctx.drawImage(img, 0, 0): source-over on the cleared bitmap; a fully
\* transparent source pixel leaves transparent black.  (A browser that
\* stores premultiplied colours may round the channels of a partly
\* transparent pixel; channels 0 and 255 are kept exactly at any alpha, and
\* the inputs below have no other partly transparent pixel.)
DrawImage(img) ==
    [width  |-> img.width,
     height |-> img.height,
     pixels |-> [i \in 1..Len(img.pixels) |->
                    IF img.pixels[i][4] = 0 THEN TransparentBlack
                    ELSE img.pixels[i]]]

PixelAt(cv, x, y) ==
    IF /\ 0 <= x /\ x < cv.width
       /\ 0 <= y /\ y < cv.height
       /\ y * cv.width + x + 1 <= Len(cv.pixels)
    THEN cv.pixels[y * cv.width + x + 1]
    ELSE TransparentBlack

RECURSIVE Flatten(_)
Flatten(pixels) ==
    IF pixels = <<>> THEN <<>> ELSE Head(pixels) \o Flatten(Tail(pixels))

\* ctx.getImageData(sx, sy, sw, sh): "IndexSizeError" when sw or sh is zero
\* (HTML, CanvasRenderingContext2D.getImageData, step 1); otherwise the
\* flat Uint8ClampedArray of the rectangle, transparent black outside the
\* bitmap.
GetImageDataThrows(sw, sh) == sw = 0 \/ sh = 0

GetImageData(cv, sx, sy, sw, sh) ==
    Flatten([k \in 1..(sw * sh) |->
                PixelAt(cv, sx + ((k - 1) % sw), sy + ((k - 1) \div sw))])

-----------------------------------------------------------------------------
(* extractColors, lines 48-68.  colorMap is a JavaScript Map: a sequence   *)
(* of [key, value] in insertion order.                                     *)

MapHas(m, k) == \E j \in 1..Len(m) : m[j].key = k

MapGet_Forgets(m, k) == 0

MapGet(m, k) ==
    IF MapHas(m, k)
    THEN m[CHOOSE j \in 1..Len(m) : m[j].key = k].value
    ELSE 0      \* undefined || 0

MapSet(m, k, v) ==
    IF MapHas(m, k)
    THEN [j \in 1..Len(m) |-> IF m[j].key = k THEN [key |-> k, value |-> v]
                                              ELSE m[j]]
    ELSE Append(m, [key |-> k, value |-> v])

\* for (let i = 0; i < imageData.length; i += 4) { ... }
RECURSIVE ScanPixels(_, _, _)
ScanPixels(imageData, i, colorMap) ==
    IF i >= Len(imageData)
    THEN colorMap
    ELSE LET r == imageData[i + 1]
             g == imageData[i + 2]
             b == imageData[i + 3]
             hex == ToHex(r, g, b)
         IN  ScanPixels(imageData, i + 4,
                        MapSet(colorMap, hex, MapGet(colorMap, hex) + 1))

Percentage_OffByOne(count, totalPixels) == RatTimes(RatDiv(count, totalPixels + 1), 100)

\* (count / totalPixels) * 100
Percentage(count, totalPixels) == RatTimes(RatDiv(count, totalPixels), 100)

Compare_Ascending(a, b) == RatMinusSign(a.percentage, b.percentage)

\* (a, b) => b.percentage - a.percentage
Compare(a, b) == RatMinusSign(b.percentage, a.percentage)

\* Array.prototype.sort is stable (ECMAScript 2019): an element goes before
\* the first one the comparator puts strictly after it.
InsertSorted(sorted, e) ==
    LET later == {j \in 1..Len(sorted) : Compare(sorted[j], e) > 0}
        at == IF later = {} THEN Len(sorted) + 1
              ELSE CHOOSE j \in later : \A k \in later : j <= k
    IN  SubSeq(sorted, 1, at - 1) \o <<e>> \o SubSeq(sorted, at, Len(sorted))

RECURSIVE SortFrom(_, _, _)
SortFrom(arr, i, sorted) ==
    IF i > Len(arr) THEN sorted
    ELSE SortFrom(arr, i + 1, InsertSorted(sorted, arr[i]))

Sort_Unstable(arr) ==
    LET s == SortFrom(arr, 1, <<>>)
    IN  [j \in 1..Len(s) |->
            IF /\ j < Len(s) /\ j % 2 = 1
               /\ Compare(s[j], s[j + 1]) = 0 THEN s[j + 1]
            ELSE IF /\ j > 1 /\ j % 2 = 0
                    /\ Compare(s[j - 1], s[j]) = 0 THEN s[j - 1]
            ELSE s[j]]

Sort(arr) == SortFrom(arr, 1, <<>>)

Slice0_Whole(arr, n) == arr

\* Array.prototype.slice(0, n)
Slice0(arr, n) == SubSeq(arr, 1, IF Len(arr) < n THEN Len(arr) ELSE n)

PaletteLimit == 6

\* Lines 49-60: the full histogram of a flat RGBA array.
Histogram(imageData) == ScanPixels(imageData, 0, <<>>)

\* Lines 62-66: Array.from(colorMap.entries()).map(...)
Entries(colorMap, totalPixels) ==
    [j \in 1..Len(colorMap) |->
        [hex |-> colorMap[j].key,
         percentage |-> Percentage(colorMap[j].value, totalPixels)]]

\* Lines 48-68: the value handed to setColors.
SortedColors(imageData) ==
    LET totalPixels == Len(imageData) \div 4
    IN  Slice0(Sort(Entries(Histogram(imageData), totalPixels)), PaletteLimit)

-----------------------------------------------------------------------------
(* Files.  A File is [name, type, image]; type is the media type split at  *)
(* its first "/" (<<"image", "png">> is "image/png"), image the raster a   *)
(* browser decodes from the file's bytes.                                  *)

\* file.type.startsWith("image/")
StartsWithImage(type) == type[1] = "image"

EmptyImage == [width |-> 0, height |-> 0, pixels |-> <<>>]

\* reader.readAsDataURL(file): the data URL carries the type and the bytes.
DataUrl(file) == [mime |-> file.type, body |-> file.image]

\* useState<string>("")
EmptyUrl == [mime |-> <<"", "">>, body |-> EmptyImage]

\* useState<string | null>(null): no hex string is empty.
Null == <<>>

NoSample == <<-1, -1>>

-----------------------------------------------------------------------------
(* Handlers.  Each history variable is set by every handler.               *)

Init ==
    /\ colors = <<>>
    /\ customColors = <<>>
    /\ imageUrl = EmptyUrl
    /\ isDragging = FALSE
    /\ isPicking = FALSE
    /\ pickedColor = Null
    /\ canvas = DefaultCanvas
    /\ pending = EmptyBag
    /\ nSelected = 0
    /\ lastImageFile = [name |-> "", type |-> <<"", "">>, image |-> EmptyImage]
    /\ error = "none"
    /\ sample = NoSample

\* Lines 37-71.  canvasRef.current and its 2d context exist once the
\* component is mounted, so the two early returns are never taken.
ExtractColors(imageElement) ==
    LET cv == DrawImage(imageElement)      \* lines 44-46
    IN  /\ canvas' = cv
        /\ IF GetImageDataThrows(cv.width, cv.height)      \* line 48
           THEN /\ error' = "IndexSizeError"
                /\ UNCHANGED colors
           ELSE /\ error' = "none"
                /\ colors' = SortedColors(
                       GetImageData(cv, 0, 0, cv.width, cv.height))

\* Lines 73-89, up to reader.readAsDataURL(file).
HandleFile(file) ==
    IF ~StartsWithImage(file.type)
    THEN UNCHANGED <<pending, nSelected, lastImageFile>>
    ELSE /\ pending' = pending (+) SetToBag({[file |-> file, stage |-> "reading"]})
         /\ nSelected' = nSelected + 1
         /\ lastImageFile' = file

\* Lines 91-99.  files is e.dataTransfer.files.
HandleDrop(files) ==
    /\ isDragging' = FALSE
    /\ IF Len(files) > 0 THEN HandleFile(files[1])
       ELSE UNCHANGED <<pending, nSelected, lastImageFile>>
    /\ error' = "none"
    /\ UNCHANGED <<colors, customColors, imageUrl, isPicking, pickedColor,
                   canvas, sample>>

\* Lines 101-104.
HandleDragOver ==
    /\ isDragging' = TRUE
    /\ error' = "none"
    /\ UNCHANGED <<colors, customColors, imageUrl, isPicking, pickedColor,
                   canvas, pending, nSelected, lastImageFile, sample>>

\* Lines 106-109.
HandleDragLeave ==
    /\ isDragging' = FALSE
    /\ error' = "none"
    /\ UNCHANGED <<colors, customColors, imageUrl, isPicking, pickedColor,
                   canvas, pending, nSelected, lastImageFile, sample>>

\* Lines 111-117.  files is e.target.files.
HandleFileInput(files) ==
    /\ IF Len(files) > 0 THEN HandleFile(files[1])
       ELSE UNCHANGED <<pending, nSelected, lastImageFile>>
    /\ error' = "none"
    /\ UNCHANGED <<colors, customColors, imageUrl, isDragging, isPicking,
                   pickedColor, canvas, sample>>

\* Lines 78-85: reader.onload; img.src = the data URL starts the decoding.
ReaderOnload(load) ==
    /\ BagIn(load, pending)
    /\ load.stage = "reading"
    /\ pending' = (pending (-) SetToBag({load}))
                      (+) SetToBag({[load EXCEPT !.stage = "decoding"]})
    /\ error' = "none"
    /\ UNCHANGED <<colors, customColors, imageUrl, isDragging, isPicking,
                   pickedColor, canvas, nSelected, lastImageFile, sample>>

\* Lines 80-83: img.onload.
ImgOnload(load) ==
    /\ BagIn(load, pending)
    /\ load.stage = "decoding"
    /\ pending' = pending (-) SetToBag({load})
    /\ imageUrl' = DataUrl(load.file)            \* setImageUrl(img.src)
    /\ ExtractColors(load.file.image)            \* extractColors(img)
    /\ UNCHANGED <<customColors, isDragging, isPicking, pickedColor,
                   nSelected, lastImageFile, sample>>

\* Line 282: the Pick Color / Cancel button, rendered when imageUrl is set.
TogglePicking ==
    /\ imageUrl # EmptyUrl
    /\ isPicking' = ~isPicking
    /\ error' = "none"
    /\ UNCHANGED <<colors, customColors, imageUrl, isDragging, pickedColor,
                   canvas, pending, nSelected, lastImageFile, sample>>

\* Lines 133-140: the canvas coordinate of a click at offset (x, y) =
\* (e.clientX - rect.left, e.clientY - rect.top) in the <img>, rendered at
\* rectWidth x rectHeight (all four in one unit of length); getImageData
\* converts its arguments to integers.
SamplePoint(x, y, rectWidth, rectHeight) ==
    LET scaleX == RatDiv(imageUrl.body.width, rectWidth)     \* naturalWidth
        scaleY == RatDiv(imageUrl.body.height, rectHeight)   \* naturalHeight
    IN  <<RatTrunc(RatTimes(scaleX, x)), RatTrunc(RatTimes(scaleY, y))>>

\* Lines 140-148.
SampledHex(point) ==
    LET pixel == GetImageData(canvas, point[1], point[2], 1, 1)
    IN  ToHex(pixel[1], pixel[2], pixel[3])

GetColorAtPoint_Unguarded(x, y, rectWidth, rectHeight, dateNow) ==
    LET point == SamplePoint(x, y, rectWidth, rectHeight)
        hex == SampledHex(point)
    IN  /\ pickedColor' = hex
        /\ customColors' =
               <<[hex |-> hex, timestamp |-> dateNow]>> \o customColors
        /\ isPicking' = FALSE
        /\ sample' = point

\* Lines 125-155.  canvasRef.current, imageRef.current and the 2d context
\* exist whenever the <img> can be clicked.  The handler does not compare
\* the offset with the rectangle.  dateNow is Date.now().
GetColorAtPoint(x, y, rectWidth, rectHeight, dateNow) ==
    IF ~isPicking
    THEN UNCHANGED <<pickedColor, customColors, isPicking, sample>>
    ELSE LET point == SamplePoint(x, y, rectWidth, rectHeight)
             hex == SampledHex(point)
         IN  /\ pickedColor' = hex
             /\ customColors' =
                    <<[hex |-> hex, timestamp |-> dateNow]>> \o customColors
             /\ isPicking' = FALSE
             /\ sample' = point

\* Line 297: onClick of the <img>, rendered when imageUrl is set and
\* clickable when it has a rendered area.  The clock does not run
\* backwards between picks.
ImageClick(x, y, rectWidth, rectHeight, dateNow) ==
    /\ imageUrl # EmptyUrl
    /\ imageUrl.body.width > 0
    /\ imageUrl.body.height > 0
    /\ customColors # <<>> => dateNow >= customColors[1].timestamp
    /\ GetColorAtPoint(x, y, rectWidth, rectHeight, dateNow)
    /\ error' = "none"
    /\ UNCHANGED <<colors, imageUrl, isDragging, canvas, pending, nSelected,
                   lastImageFile>>

-----------------------------------------------------------------------------
(* Inputs.                                                                 *)

\* RGBA pixels for the extraction inputs.  Entries 2 and 3 differ in alpha
\* only; entry 9 is fully transparent; the first two are the 2 x 1 example
\* (red, then green), in an order that is not the order of their hex keys.
Palette ==
    << <<255, 0, 0, 255>>, <<0, 255, 0, 255>>, <<0, 255, 0, 128>>,
       <<10, 20, 30, 255>>, <<0, 0, 0, 255>>, <<0, 0, 255, 255>>,
       <<0, 1, 0, 255>>, <<1, 0, 0, 255>>, <<0, 0, 1, 0>>,
       <<16, 0, 0, 255>>, <<255, 255, 255, 255>> >>

Reverse(s) == [i \in 1..Len(s) |-> s[Len(s) + 1 - i]]

Palettes == {Palette, Reverse(Palette)}

\* The ways n pixels can repeat each other: pixel i takes the colour of an
\* earlier pixel or the next unused colour of the palette pal.  Each
\* sequence of pixels comes with the number of palette entries it uses.
RECURSIVE PixelsUsing(_, _)
PixelsUsing(n, pal) ==
    IF n = 0 THEN {<<0, <<>> >>}
    ELSE UNION {{<<(IF c > p[1] THEN c ELSE p[1]), Append(p[2], pal[c])>> :
                    c \in 1..(p[1] + 1)} : p \in PixelsUsing(n - 1, pal)}

Shapes(maxW, maxH, maxN) ==
    {wh \in (0..maxW) \X (0..maxH) : wh[1] * wh[2] <= maxN}

\* Channel values with and without a leading zero digit, and alpha values.
Channels == {0, 1, 10, 16, 30, 255}
Alphas == {0, 255}

\* The sampling inputs: every 1 x 1 image over Channels and Alphas, and the
\* images of 2 x 1, 1 x 2 and 2 x 2 pixels over the palettes.
PickImages ==
    {[width |-> 1, height |-> 1, pixels |-> << <<r, g, b, a>> >>] :
        r \in Channels, g \in Channels, b \in Channels, a \in Alphas}
    \cup {img \in {[width |-> wh[1], height |-> wh[2], pixels |-> p[2]] :
                        wh \in {<<2, 1>>, <<1, 2>>, <<2, 2>>},
                        p \in UNION {PixelsUsing(n, pal) :
                                        n \in {2, 4}, pal \in Palettes}} :
            Len(img.pixels) = img.width * img.height}

PngFile(name, img) == [name |-> name, type |-> <<"image", "png">>, image |-> img]

\* The files of an interactive session: two images and a text file.
AppFiles ==
    { PngFile("a.png", [width |-> 2, height |-> 1,
                        pixels |-> <<Palette[1], Palette[2]>>]),
      PngFile("b.png", [width |-> 1, height |-> 2,
                        pixels |-> <<Palette[4], Palette[3]>>]),
      [name |-> "notes.txt", type |-> <<"text", "plain">>, image |-> EmptyImage] }

\* e.dataTransfer.files / e.target.files: no file, one file, or two
\* different files.
FileLists ==
    {<<>>} \cup {<<f>> : f \in AppFiles}
           \cup {fg \in AppFiles \X AppFiles : fg[1] # fg[2]}

-----------------------------------------------------------------------------
(* Specifications.                                                         *)

\* Clicks on an element rendered at up to maxD x maxD, edges included.
Clicks(maxD) ==
    {c \in (0..maxD) \X (0..maxD) \X (1..maxD) \X (1..maxD) :
        c[1] <= c[3] /\ c[2] <= c[4]}

UserEvent ==
    \/ /\ nSelected < MaxSelections
       /\ \E files \in FileLists : HandleDrop(files)
    \/ /\ nSelected < MaxSelections
       /\ \E files \in FileLists : HandleFileInput(files)
    \/ HandleDragOver
    \/ HandleDragLeave
    \/ TogglePicking
    \/ /\ Len(customColors) < MaxHistory
       /\ \E x \in 0..imageUrl.body.width, y \in 0..imageUrl.body.height,
             t \in 0..MaxClock :
            \* the image is rendered at its natural size
            ImageClick(x, y, imageUrl.body.width, imageUrl.body.height, t)

Completion ==
    \/ \E load \in BagToSet(pending) : ReaderOnload(load)
    \/ \E load \in BagToSet(pending) : ImgOnload(load)

Next ==
    \/ UserEvent
    \/ Completion

\* The interactive session.
Spec == Init /\ [][Next]_vars

\* One image, read and about to fire img.onload.
InitLoaded(img) ==
    LET file == PngFile("input.png", img)
    IN  /\ colors = <<>>
        /\ customColors = <<>>
        /\ imageUrl = EmptyUrl
        /\ isDragging = FALSE
        /\ isPicking = FALSE
        /\ pickedColor = Null
        /\ canvas = DefaultCanvas
        /\ pending = SetToBag({[file |-> file, stage |-> "decoding"]})
        /\ nSelected = 1
        /\ lastImageFile = file
        /\ error = "none"
        /\ sample = NoSample

InitExtract ==
    \E wh \in Shapes(MaxWidth, MaxHeight, MaxPixels), pal \in Palettes :
        \E p \in PixelsUsing(wh[1] * wh[2], pal) :
            InitLoaded([width |-> wh[1], height |-> wh[2], pixels |-> p[2]])

InitPick == \E img \in PickImages : InitLoaded(img)

NextExtract == \E load \in BagToSet(pending) : ImgOnload(load)

\* extractColors applied to each extraction input.
SpecExtract == InitExtract /\ [][NextExtract]_vars

NextPick ==
    \/ \E load \in BagToSet(pending) : ImgOnload(load)
    \/ TogglePicking
    \/ /\ Len(customColors) < MaxHistory
       /\ \E c \in Clicks(MaxDisplay) : ImageClick(c[1], c[2], c[3], c[4], 0)

\* getColorAtPoint applied to each sampling input.
SpecPick == InitPick /\ [][NextPick]_vars

-----------------------------------------------------------------------------
(* What the properties below are stated with: the pixels of the canvas     *)
(* read directly, and hex keys decoded digit by digit.                     *)

RGBValue(p) == p[1] * 65536 + p[2] * 256 + p[3]

IsHexKey(h) ==
    /\ Len(h) = 7
    /\ h[1] = "#"
    /\ \A i \in 2..7 : \E v \in 1..16 : HexDigits[v] = h[i]

HexDigitValue(c) == (CHOOSE v \in 1..16 : HexDigits[v] = c) - 1

HexKeyValue(h) ==
    HexDigitValue(h[2]) * 1048576 + HexDigitValue(h[3]) * 65536
    + HexDigitValue(h[4]) * 4096 + HexDigitValue(h[5]) * 256
    + HexDigitValue(h[6]) * 16 + HexDigitValue(h[7])

TotalPixels == canvas.width * canvas.height

PixelIndexes == 1..Len(canvas.pixels)

\* The RGB values (as 24-bit numbers) that occur in the canvas.
CanvasValues == {RGBValue(canvas.pixels[i]) : i \in PixelIndexes}

\* How many pixels of the canvas have the RGB value v, whatever their alpha.
PixelCount(v) ==
    Cardinality({i \in PixelIndexes : RGBValue(canvas.pixels[i]) = v})

\* The first pixel, in row-major order, with the RGB value v.
FirstOccurrence(v) ==
    CHOOSE i \in PixelIndexes :
        /\ RGBValue(canvas.pixels[i]) = v
        /\ \A j \in PixelIndexes : RGBValue(canvas.pixels[j]) = v => i <= j

\* The RGB values of the palette in state, when its keys are well formed.
PaletteValues == {HexKeyValue(colors[i].hex) : i \in 1..Len(colors)}

KeysWellFormed == \A i \in 1..Len(colors) : IsHexKey(colors[i].hex)

\* img.onload has run to its end on a canvas with pixels.
Extracted ==
    /\ BagToSet(pending) = {}
    /\ imageUrl # EmptyUrl
    /\ TotalPixels > 0

\* p >= q, p = q for rationals with positive denominators.
RatGeq(p, q) == p[1] * q[2] >= q[1] * p[2]
RatEq(p, q) == p[1] * q[2] = q[1] * p[2]

RECURSIVE SumOfPercentages(_)
SumOfPercentages(entries) ==
    IF Len(entries) = 0 THEN <<0, 1>>
    ELSE LET h == entries[1].percentage
             t == SumOfPercentages(Tail(entries))
         IN  Rat(h[1] * t[2] + t[1] * h[2], h[2] * t[2])

RECURSIVE SumOfCounts(_)
SumOfCounts(colorMap) ==
    IF Len(colorMap) = 0 THEN 0
    ELSE colorMap[1].value + SumOfCounts(Tail(colorMap))

-----------------------------------------------------------------------------
(* Properties of extractColors, under SpecExtract.                         *)

\* C1: after extraction from a canvas with pixels, every palette entry has
\* percentage 100 * count / totalPixels, count being the number of pixels
\* with the entry's RGB value; no colour left out of the palette occurs
\* strictly more often than a colour in it; a canvas of one colour gives
\* exactly one entry, of percentage 100.
C1_PercentagesAreFrequencies ==
    Extracted =>
        /\ KeysWellFormed
        /\ \A i \in 1..Len(colors) :
              /\ HexKeyValue(colors[i].hex) \in CanvasValues
              /\ colors[i].percentage[2] > 0
              /\ RatEq(colors[i].percentage,
                       <<100 * PixelCount(HexKeyValue(colors[i].hex)),
                         TotalPixels>>)
        /\ \A v \in CanvasValues \ PaletteValues :
              \A w \in PaletteValues : PixelCount(v) <= PixelCount(w)
        /\ Cardinality(CanvasValues) = 1 =>
              /\ Len(colors) = 1
              /\ colors[1].percentage = <<100, 1>>

\* A canvas with more colours than the palette holds, of different
\* frequencies, one of them left out.
C1_Witness ==
    /\ Extracted
    /\ Len(colors) = PaletteLimit
    /\ CanvasValues \ PaletteValues # {}
    /\ colors[1].percentage # colors[PaletteLimit].percentage

\* C2: the palette is in order of non-increasing percentage.
C2_NonIncreasing ==
    BagToSet(pending) = {} =>
        \A i \in 1..(Len(colors) - 1) :
            RatGeq(colors[i].percentage, colors[i + 1].percentage)

\* A palette of three different percentages from a canvas whose scan meets
\* the rarest colour first.
C2_Witness ==
    /\ Extracted
    /\ Len(colors) >= 3
    /\ ~RatEq(colors[1].percentage, colors[2].percentage)
    /\ ~RatEq(colors[2].percentage, colors[3].percentage)
    /\ RGBValue(canvas.pixels[1]) = HexKeyValue(colors[3].hex)

\* C3: the palette has exactly min(6, number of distinct RGB colours of the
\* canvas) entries, and no hex key twice.
C3_PaletteSize ==
    (BagToSet(pending) = {} /\ imageUrl # EmptyUrl) =>
        /\ Len(colors) = IF Cardinality(CanvasValues) < 6
                         THEN Cardinality(CanvasValues) ELSE 6
        /\ \A i, j \in 1..Len(colors) :
              colors[i].hex = colors[j].hex => i = j

\* A canvas with more than six distinct colours.
C3_Witness ==
    /\ Extracted
    /\ Cardinality(CanvasValues) > 6
    /\ Len(colors) = 6

\* C4: on a canvas with pixels the counts of the full histogram sum to
\* width * height, its percentages sum to 100, and the percentages of the
\* palette sum to at most 100.
C4_Conservation ==
    Extracted =>
        LET imageData ==
                GetImageData(canvas, 0, 0, canvas.width, canvas.height)
            full == Histogram(imageData)
        IN  /\ SumOfCounts(full) = TotalPixels
            /\ RatEq(SumOfPercentages(Entries(full, Len(imageData) \div 4)),
                     <<100, 1>>)
            /\ RatGeq(<<100, 1>>, SumOfPercentages(colors))

\* A truncated palette, summing to less than 100, with a repeated colour.
C4_Witness ==
    /\ Extracted
    /\ Cardinality(CanvasValues) > 6
    /\ ~RatEq(SumOfPercentages(colors), <<100, 1>>)
    /\ \E v \in CanvasValues : PixelCount(v) > 1

\* C5: extraction is total: once img.onload has run, no exception has
\* escaped, and a zero-area canvas has left an empty palette.
C5_ExtractionIsTotal ==
    (BagToSet(pending) = {} /\ imageUrl # EmptyUrl) =>
        /\ error = "none"
        /\ TotalPixels = 0 => colors = <<>>

\* C8: colours of equal percentage are in the order of their first
\* occurrence in the row-major scan, the palette keeps the earliest of the
\* tied colours, a further extraction from the same canvas gives the palette
\* again, and the 2 x 1 image red, green gives [#ff0000 50, #00ff00 50].
C8_TiesInScanOrder ==
    Extracted =>
        /\ KeysWellFormed
        /\ \A i, j \in 1..Len(colors) :
              (i < j /\ RatEq(colors[i].percentage, colors[j].percentage)) =>
                  FirstOccurrence(HexKeyValue(colors[i].hex))
                      < FirstOccurrence(HexKeyValue(colors[j].hex))
        /\ \A v \in CanvasValues \ PaletteValues :
              \A w \in PaletteValues :
                  PixelCount(v) = PixelCount(w) =>
                      FirstOccurrence(w) < FirstOccurrence(v)
        /\ colors = SortedColors(
               GetImageData(canvas, 0, 0, canvas.width, canvas.height))
        /\ (/\ canvas.width = 2 /\ canvas.height = 1
            /\ canvas.pixels = << <<255, 0, 0, 255>>, <<0, 255, 0, 255>> >>) =>
              colors = << [hex |-> <<"#", "f", "f", "0", "0", "0", "0">>,
                           percentage |-> <<50, 1>>],
                          [hex |-> <<"#", "0", "0", "f", "f", "0", "0">>,
                           percentage |-> <<50, 1>>] >>

\* The 2 x 1 image red, green: a tie whose scan order is not the order of
\* the hex keys.
C8_Witness ==
    /\ Extracted
    /\ canvas.width = 2 /\ canvas.height = 1
    /\ canvas.pixels = << <<255, 0, 0, 255>>, <<0, 255, 0, 255>> >>
    /\ Len(colors) = 2

-----------------------------------------------------------------------------
(* Properties of getColorAtPoint, under SpecPick.                          *)

SampleInCanvas ==
    /\ 0 <= sample[1] /\ sample[1] < canvas.width
    /\ 0 <= sample[2] /\ sample[2] < canvas.height

\* C6: every hex key, of the palette and of a pick, is "#" and six hex
\* digits that encode r * 65536 + g * 256 + b of the pixels it stands for;
\* one key stands for one RGB triple and one triple has one key, whatever
\* the alpha of the pixels: the palette has one entry per RGB value, counting
\* the pixels of every alpha, and a pick of a pixel gives the key the
\* palette has for its RGB value.
C6_HexKeys ==
    /\ KeysWellFormed
    /\ \A k \in 1..Len(customColors) : IsHexKey(customColors[k].hex)
    /\ BagToSet(pending) = {} =>
          /\ PaletteValues \subseteq CanvasValues
          /\ Cardinality(CanvasValues) <= PaletteLimit =>
                PaletteValues = CanvasValues
          /\ \A i, j \in 1..Len(colors) :
                HexKeyValue(colors[i].hex) = HexKeyValue(colors[j].hex) => i = j
          /\ \A i \in 1..Len(colors) :
                RatEq(colors[i].percentage,
                      <<100 * PixelCount(HexKeyValue(colors[i].hex)),
                        TotalPixels>>)
    /\ pickedColor # Null =>
          /\ IsHexKey(pickedColor)
          /\ HexKeyValue(pickedColor)
                = RGBValue(PixelAt(canvas, sample[1], sample[2]))
          /\ \A i \in 1..Len(colors) :
                HexKeyValue(colors[i].hex) = HexKeyValue(pickedColor) =>
                    colors[i].hex = pickedColor

\* A pick of the half-transparent green pixel of a canvas that also has an
\* opaque green one: the key has leading zeros and is the palette's key for
\* both pixels.
C6_Witness ==
    /\ pickedColor = <<"#", "0", "0", "f", "f", "0", "0">>
    /\ SampleInCanvas
    /\ PixelAt(canvas, sample[1], sample[2]) = <<0, 255, 0, 128>>
    /\ \E i \in PixelIndexes : canvas.pixels[i] = <<0, 255, 0, 255>>
    /\ \E i \in 1..Len(colors) :
          /\ colors[i].hex = pickedColor
          /\ PixelCount(HexKeyValue(pickedColor)) >= 2

\* C7: a pick at an offset within the rendered element, edges included,
\* reads the canvas pixel (floor(x * width / rectWidth),
\* floor(y * height / rectHeight)), which lies in the canvas.
C7_SampleWithinBuffer ==
    [][\A c \in Clicks(MaxDisplay) :
          (isPicking /\ ImageClick(c[1], c[2], c[3], c[4], 0)) =>
              /\ sample' = <<(c[1] * canvas.width) \div c[3],
                             (c[2] * canvas.height) \div c[4]>>
              /\ 0 <= sample'[1] /\ sample'[1] < canvas.width
              /\ 0 <= sample'[2] /\ sample'[2] < canvas.height]_vars

-----------------------------------------------------------------------------
(* Properties of the session, under Spec.                                  *)

\* An image click of the session.
IsImageClick ==
    /\ UNCHANGED <<colors, imageUrl, isDragging, canvas, pending, nSelected,
                   lastImageFile>>
    /\ \E x \in 0..imageUrl.body.width, y \in 0..imageUrl.body.height,
          t \in 0..MaxClock :
          ImageClick(x, y, imageUrl.body.width, imageUrl.body.height, t)

\* C9: the history changes only by a pick made in picking mode, which
\* prepends one entry, keeps the earlier entries and the palette, shows the
\* picked colour and leaves picking mode; an image click outside picking
\* mode changes neither the history, the picked colour, the mode nor the
\* palette; the history is newest first.
C9_HistoryGrowsByPicks ==
    /\ [][/\ customColors' # customColors =>
               /\ isPicking /\ ~isPicking'
               /\ Len(customColors') = Len(customColors) + 1
               /\ Tail(customColors') = customColors
               /\ pickedColor' = customColors'[1].hex
               /\ colors' = colors
          /\ IsImageClick =>
               IF isPicking
               THEN /\ Len(customColors') = Len(customColors) + 1
                    /\ ~isPicking'
               ELSE UNCHANGED <<customColors, pickedColor, isPicking, colors>>
          /\ pickedColor' # pickedColor => customColors' # customColors
         ]_vars
    /\ [](\A i \in 1..(Len(customColors) - 1) :
             customColors[i].timestamp >= customColors[i + 1].timestamp)

\* Two picks, of different colours at different times, picking mode left.
C9_Witness ==
    /\ Len(customColors) = 2
    /\ ~isPicking
    /\ customColors[1].hex # customColors[2].hex
    /\ customColors[1].timestamp > customColors[2].timestamp
    /\ pickedColor = customColors[1].hex

\* C10: once no load is pending, the displayed image, the palette and the
\* canvas are those of the file selected last among the image files.
C10_LastSelectionWins ==
    (BagToSet(pending) = {} /\ nSelected > 0) =>
        /\ imageUrl = DataUrl(lastImageFile)
        /\ canvas = DrawImage(lastImageFile.image)
        /\ colors = SortedColors(
               GetImageData(canvas, 0, 0, canvas.width, canvas.height))

====
